---- MODULE Spec2Model ----
(***************************************************************************)
(* Acquisition sessions of the two board drivers:                          *)
(*   FreeEEG32       (serial transport,    freeeeg32.cpp)                  *)
(*   StreamingBoard  (multicast transport, streaming_board.cpp)            *)
(* One controller issues prepare/start/stop/release; start spawns one      *)
(* worker thread running read_thread; stop blocks in join.                 *)
(***************************************************************************)
EXTENDS Integers, Sequences, FiniteSets, TLC

\* ---------------------------------------------------------------- bounds
\* transport objects (Serial / MultiCastClient) one session may allocate
MaxObjs == 2
\* packages the worker may push to the Sink
MaxPush == 1
\* how far below 0 the scan position is followed
MaxUnderrun == 1
\* reads of a scripted line that may time out or fail before the line ends
MaxFaults == 1

\* ------------------------------------------------------ program constants
max_size == 200
eeg_channels == 32
min_package_size == 1 + eeg_channels * 3

STATUS_OK == "STATUS_OK"
INVALID_ARGUMENTS_ERROR == "INVALID_ARGUMENTS_ERROR"
GENERAL_ERROR == "GENERAL_ERROR"
PORT_ALREADY_OPEN_ERROR == "PORT_ALREADY_OPEN_ERROR"
UNABLE_TO_OPEN_PORT_ERROR == "UNABLE_TO_OPEN_PORT_ERROR"
SET_PORT_ERROR == "SET_PORT_ERROR"
STREAM_ALREADY_RUN_ERROR == "STREAM_ALREADY_RUN_ERROR"
STREAM_THREAD_IS_NOT_RUNNING == "STREAM_THREAD_IS_NOT_RUNNING"
INVALID_BUFFER_SIZE_ERROR == "INVALID_BUFFER_SIZE_ERROR"

\* a board id: an enumerator of BoardIds by its name, or a parsed number
NamedBoard(name) == [name |-> name, number |-> 0]

NumberedBoard(n) == [name |-> "", number |-> n]

\* ------------------------------------------------------------ input sets
\* values of params.other_info: characters are a digit "7" or a letter "x"
OtherInfos == {<<>>, <<"x">>, <<"7">>, <<"7", "x">>}
SerialPorts == {"", "/dev/ttyACM0"}
IpAddresses == {"", "225.1.1.1"}
IpPorts == {0, 6677}

\* outcome of a transport call that can fail
Outcomes == {"ok", "fail"}
\* return values of serial->read_from_serial_port (b + pos, 1)
ReadResults == {1, 0, -1}
\* return values of client->recv (package, bytes_per_recv): the whole packet,
\* fewer bytes, nothing within the timeout, or an error value
RecvResults == {"full", "short", "zero", "error"}
\* the same when nothing arrives on the transport
QuietReadResults == {0}
QuietRecvResults == {"zero"}

IsDigit(c) == c = "7"

DigitVal(c) == 7

\* std::stoi over the leading digits; <<>> stands for the thrown exception
RECURSIVE Digits(_)
Digits(s) ==
    IF s = <<>> \/ ~IsDigit(Head(s)) THEN <<>> ELSE <<Head(s)>> \o Digits(Tail(s))

RECURSIVE DecimalValue(_)
DecimalValue(d) ==
    IF d = <<>> THEN 0 ELSE 10 * DecimalValue(SubSeq(d, 1, Len(d) - 1)) + DigitVal(d[Len(d)])

stoi(s) ==
    IF Digits(s) = <<>> THEN [throws |-> TRUE, value |-> 0]
    ELSE [throws |-> FALSE, value |-> DecimalValue(Digits(s))]

\* ------------------------------------------------------------------ state
VARIABLES
    driver,                  \* which class the session is an instance of
    params,                  \* BrainFlowInputParams given to the constructor
    board_id,                \* Board::board_id
    initialized,
    is_streaming,
    keep_alive,
    serial,                  \* FreeEEG32::serial: 0 is NULL, else an index of objs
    client,                  \* StreamingBoard::client: 0 is NULL, else an index of objs
    streamer,                \* Board::streamer: TRUE when the Sink object exists
    streaming_thread,        \* "none" (not joinable) or the worker's position
    workers,                 \* threads spawned and not yet joined
    pos,                     \* read_thread local: scan position
    first_package_received,  \* read_thread local
    pushed,                  \* packages handed to push_package
    res,                     \* StreamingBoard::read_thread local: the last recv result
    b,                       \* FreeEEG32::read_thread local: the scan buffer
    package,                 \* the bytes the last package pushed was decoded from
    scenario,                \* the byte stream the serial line delivers, when scripted
    rd,                      \* bytes of that stream read so far
    faults,                  \* reads of that stream that returned no byte so far
    objs,                    \* every transport object allocated so far
    pc,                      \* controller: "ready" or blocked in a join
    ret,                     \* the call that returned in the last step, and its exit code
    ever_prepared,           \* some prepare_session has set initialized
    process                  \* "running", "undefined" once undefined behaviour was executed,
                             \* or "terminated"

vars ==
    <<driver, params, board_id, initialized, is_streaming, keep_alive, serial, client,
      streamer, streaming_thread, workers, pos, first_package_received, pushed, res,
      b, package, scenario, rd, faults, objs, pc, ret, ever_prepared, process>>

\* what a controller call can change in the session and its transport
session == <<board_id, initialized, is_streaming, keep_alive, serial, client, streamer, objs>>

\* the worker thread and its locals
worker == <<streaming_thread, workers, pos, first_package_received, pushed, res, b, package>>

\* the scripted serial line
line == <<scenario, rd, faults>>

\* -------------------------------------------------- transport objects
\* new Serial (...) / new MultiCastClient (...)
NewObj == [alive |-> TRUE, open |-> FALSE, opens |-> 0, closes |-> 0, dels |-> 0]

\* a successful open_serial_port () / init ()
OpenObj(os, h) == [os EXCEPT ![h].open = TRUE, ![h].opens = @ + 1]

\* close_serial_port (): closes the descriptor when it is open
CloseObj(os, h) ==
    IF os[h].open THEN [os EXCEPT ![h].open = FALSE, ![h].closes = @ + 1] ELSE os

\* delete: the destructor closes what is still open
DeleteObj(os, h) ==
    [CloseObj(os, h) EXCEPT ![h].alive = FALSE, ![h].dels = @ + 1]

\* the transport handle of the running driver
Handle == IF driver = "serial" THEN serial ELSE client

\* a call through the handle is defined: non-null and not deleted
Usable(h) == h # 0 /\ objs[h].alive

\* ------------------------------------------------------- serial bytes
\* FreeEEG32::start_byte and FreeEEG32::end_byte; any other value is "data"
START_BYTE == "START_BYTE"
END_BYTE == "END_BYTE"

\* a byte: its value, and which byte of the line it is (frame and offset)
Byte(val, frame, at) == [val |-> val, frame |-> frame, at |-> at]

\* unsigned char b[max_size] = {0}: the buffer is kept as the cells written
\* so far, every other cell holding its initial zero
ZeroBuffer == <<>>

\* b[i]
Cell(buf, i) == IF i \in DOMAIN buf THEN buf[i] ELSE Byte("data", "none", 0)

\* b[i] = x
Stored(buf, i, x) == [j \in (DOMAIN buf) \cup {i} |-> IF j = i THEN x ELSE buf[j]]

\* a frame on the wire: marker, 3 bytes per channel, END_BYTE, START_BYTE
FrameLen == min_package_size + 2

FrameName == <<"frame1", "frame2", "frame3">>

\* the i-th byte (from 1) of the line s: garbage, a truncated frame (the
\* first bytes of a frame, no sentinel), then whole frames back to back
ByteAt(s, i) ==
    IF i <= s.garbage THEN Byte("data", "garbage", i - 1)
    ELSE IF i <= s.garbage + s.truncated THEN Byte("data", "truncated", i - s.garbage - 1)
    ELSE LET k == i - s.garbage - s.truncated - 1
             at == k % FrameLen
         IN  Byte(IF at = FrameLen - 1 THEN START_BYTE
                  ELSE IF at = FrameLen - 2 THEN END_BYTE ELSE "data",
                  FrameName[(k \div FrameLen) + 1], at)

StreamLen(s) == s.garbage + s.truncated + s.frames * FrameLen

\* lengths of the garbage and of the truncated frame
Garbages == {0, 2, 100}
Truncateds == {0, 3}

\* the lines fed to the worker: without a failing read, or three frames with
\* reads that time out or fail
Scenarios ==
    [garbage : Garbages, truncated : Truncateds, frames : {2}, fault : {"none"}]
    \cup [garbage : {0}, truncated : {0}, frames : {3}, fault : {"timeout", "error"}]

\* no scripted line: the serial line delivers anything
NoLine == [garbage |-> 0, truncated |-> 0, frames |-> 0, fault |-> "none"]

\* the bytes each field of a package is computed from (lines 166-170):
\* package[0] from b[0], package[i + 1] from b[1 + 3 * i .. 3 + 3 * i]
Decoded(buf) ==
    [f \in 0..eeg_channels |->
        IF f = 0 THEN <<Cell(buf, 0)>>
        ELSE <<Cell(buf, 1 + 3 * (f - 1)), Cell(buf, 2 + 3 * (f - 1)),
               Cell(buf, 3 + 3 * (f - 1))>>]

\* double *package = new double[package_size]: nothing decoded yet
NoPackage == <<>>

\* ---------------------------------------------------------------- Init
NoReturn == [op |-> "none", code |-> "none", from |-> "none"]

\* the lifecycle state the flags encode
LifecycleState ==
    IF is_streaming THEN "Streaming" ELSE IF initialized THEN "Prepared" ELSE "Idle"

SerialParams ==
    [serial_port : SerialPorts, ip_address : {""}, ip_port : {0}, other_info : {<<>>}]

MulticastParams ==
    [serial_port : {""}, ip_address : IpAddresses, ip_port : IpPorts, other_info : OtherInfos]

Init ==
    /\ driver \in {"serial", "multicast"}
    /\ params \in (IF driver = "serial" THEN SerialParams ELSE MulticastParams)
    /\ board_id = (IF driver = "serial" THEN NamedBoard("FREEEEG32_BOARD")
                                         ELSE NamedBoard("STREAMING_BOARD"))
    /\ initialized = FALSE
    /\ is_streaming = FALSE
    /\ keep_alive = FALSE
    /\ serial = 0
    /\ client = 0
    /\ streamer = FALSE
    /\ streaming_thread = "none"
    /\ workers = 0
    /\ pos = 0
    /\ first_package_received = FALSE
    /\ pushed = 0
    /\ res = "none"
    /\ b = ZeroBuffer
    /\ package = NoPackage
    /\ scenario = NoLine
    /\ rd = 0
    /\ faults = 0
    /\ objs = <<>>
    /\ pc = "ready"
    /\ ret = NoReturn
    /\ ever_prepared = FALSE
    /\ process = "running"

\* a controller call, made in lifecycle state from, returns code to its caller
ReturnFrom(op, code, from) ==
    /\ ret' = [op |-> op, code |-> code, from |-> from]
    /\ pc' = "ready"

\* the same for a call that did not block: it was made in the current state
Return(op, code) == ReturnFrom(op, code, LifecycleState)

\* a step in which no controller call returns
Quiet == ret' = NoReturn

\* the process has not been terminated
Running == process # "terminated"

\* the process runs and has executed nothing whose behaviour is undefined
Defined == process = "running"

\* the controller may issue a call
Callable(d) == driver = d /\ pc = "ready" /\ Running

\* ------------------------------------------------ Board (base class)
\* Board::prepare_buffers: builds the Sink, or returns an error code
prepare_buffers(o) ==
    IF o = "ok" THEN [code |-> STATUS_OK, streamer |-> TRUE]
    ELSE [code |-> INVALID_BUFFER_SIZE_ERROR, streamer |-> streamer]

\* Board::push_package: one package handed to the Sink
push_package == pushed' = pushed + 1

\* std::thread::join on the worker: returns once read_thread has returned
Joined ==
    /\ streaming_thread = "done"
    /\ streaming_thread' = "none"
    /\ workers' = workers - 1

\* streaming_thread = std::thread (...): a thread is launched, and assigning
\* over a handle that is still joinable calls std::terminate; p is the state
\* of the process otherwise
Spawned(p) ==
    /\ workers' = workers + 1
    /\ pos' = 0
    /\ first_package_received' = FALSE
    /\ b' = ZeroBuffer
    /\ IF streaming_thread = "none"
       THEN streaming_thread' = "top" /\ process' = p
       ELSE streaming_thread' = streaming_thread /\ process' = "terminated"

\* ---------------------------------------------------------- FreeEEG32
FreeEEG32_open_port(os, h, o) ==
    IF os[h].open THEN [code |-> PORT_ALREADY_OPEN_ERROR, objs |-> os]
    ELSE IF o = "fail" THEN [code |-> UNABLE_TO_OPEN_PORT_ERROR, objs |-> os]
    ELSE [code |-> STATUS_OK, objs |-> OpenObj(os, h)]

FreeEEG32_set_port_settings(s) ==
    IF s = "fail" THEN SET_PORT_ERROR ELSE STATUS_OK

\* prepare_session past its two early returns: allocate, open, configure
FreeEEG32_acquire(o, s) ==
    LET h == Len(objs) + 1
        port_open == FreeEEG32_open_port(Append(objs, NewObj), h, o)
        set_settings == FreeEEG32_set_port_settings(s)
    IN  IF port_open.code # STATUS_OK
        THEN [code |-> port_open.code, serial |-> 0,
              objs |-> DeleteObj(port_open.objs, h), initialized |-> FALSE]
        ELSE IF set_settings # STATUS_OK
        THEN [code |-> set_settings, serial |-> 0,
              objs |-> DeleteObj(port_open.objs, h), initialized |-> FALSE]
        ELSE [code |-> STATUS_OK, serial |-> h,
              objs |-> port_open.objs, initialized |-> TRUE]

FreeEEG32_prepare_session ==
    /\ Callable("serial")
    /\ IF initialized
       THEN /\ Return("prepare", STATUS_OK)
            /\ UNCHANGED <<session, ever_prepared>>
       ELSE IF params.serial_port = ""
       THEN /\ Return("prepare", INVALID_ARGUMENTS_ERROR)
            /\ UNCHANGED <<session, ever_prepared>>
       ELSE /\ Len(objs) < MaxObjs
            /\ \E o \in Outcomes, s \in Outcomes :
                  LET r == FreeEEG32_acquire(o, s)
                  IN  /\ serial' = r.serial
                      /\ objs' = r.objs
                      /\ initialized' = r.initialized
                      /\ ever_prepared' = (ever_prepared \/ r.initialized)
                      /\ Return("prepare", r.code)
            /\ UNCHANGED <<board_id, is_streaming, keep_alive, client, streamer>>
    /\ UNCHANGED <<driver, params, line, worker, process>>

\* variant of the guard below: start_stream never refuses
FreeEEG32_already_streaming_unchecked == FALSE

\* the guard of start_stream
FreeEEG32_already_streaming == is_streaming

FreeEEG32_start_stream ==
    /\ Callable("serial")
    /\ \E pb \in Outcomes, ub \in {"crash", "continue"} :
          LET buffers == prepare_buffers(pb)
          IN  IF FreeEEG32_already_streaming
              THEN /\ Return("start", STREAM_ALREADY_RUN_ERROR)
                   /\ UNCHANGED <<session, worker, process>>
              ELSE IF buffers.code # STATUS_OK
              THEN /\ Return("start", buffers.code)
                   /\ streamer' = buffers.streamer
                   /\ UNCHANGED <<board_id, initialized, is_streaming, keep_alive,
                                  serial, client, objs, worker, process>>
              ELSE IF ~Usable(serial) /\ ub = "crash"
              THEN \* serial->flush_buffer () through a null pointer
                   /\ process' = "terminated"
                   /\ streamer' = buffers.streamer
                   /\ UNCHANGED <<board_id, initialized, is_streaming, keep_alive,
                                  serial, client, objs, worker, pc>>
                   /\ Quiet
              ELSE /\ streamer' = buffers.streamer
                   /\ keep_alive' = TRUE
                   /\ Spawned(IF Usable(serial) THEN process ELSE "undefined")
                   /\ is_streaming' = TRUE
                   /\ Return("start", STATUS_OK)
                   /\ UNCHANGED <<board_id, initialized, serial, client, objs, pushed,
                                  res, package>>
    /\ UNCHANGED <<driver, params, line, ever_prepared>>

\* stop_stream up to the join
FreeEEG32_stop_stream ==
    /\ Callable("serial")
    /\ IF is_streaming
       THEN /\ keep_alive' = FALSE
            /\ is_streaming' = FALSE
            /\ pc' = "stop_join"
            /\ Quiet
       ELSE /\ Return("stop", STREAM_THREAD_IS_NOT_RUNNING)
            /\ UNCHANGED <<is_streaming, keep_alive>>
    /\ UNCHANGED <<driver, params, line, board_id, initialized, serial, client, streamer, objs,
                   worker, ever_prepared, process>>

\* stop_stream from the join on; the join is skipped when the handle is not
\* joinable
FreeEEG32_stop_stream_join ==
    /\ driver = "serial" /\ pc = "stop_join" /\ Running
    /\ IF streaming_thread # "none" THEN Joined ELSE UNCHANGED <<streaming_thread, workers>>
    /\ streamer' = FALSE
    /\ ReturnFrom("stop", STATUS_OK, "Streaming")
    /\ UNCHANGED <<driver, params, line, board_id, initialized, is_streaming, keep_alive, serial,
                   client, objs, pos, first_package_received, pushed, res, b, package,
                   ever_prepared, process>>

\* variant of the tail below: the pointer is not reset to NULL
FreeEEG32_close_dangling(s, os) ==
    IF s # 0
    THEN [serial |-> s, objs |-> DeleteObj(CloseObj(os, s), s)]
    ELSE [serial |-> s, objs |-> os]

\* the tail of release_session: close and delete the port object
FreeEEG32_close(s, os) ==
    IF s # 0
    THEN [serial |-> 0, objs |-> DeleteObj(CloseObj(os, s), s)]
    ELSE [serial |-> s, objs |-> os]

\* release_session up to the join, or all of it when it does not stop a stream
FreeEEG32_release_session ==
    /\ Callable("serial")
    /\ IF initialized /\ is_streaming
       THEN /\ keep_alive' = FALSE
            /\ is_streaming' = FALSE
            /\ pc' = "release_join"
            /\ Quiet
            /\ UNCHANGED <<initialized, serial, objs>>
       ELSE /\ initialized' = FALSE
            /\ serial' = FreeEEG32_close(serial, objs).serial
            /\ objs' = FreeEEG32_close(serial, objs).objs
            /\ Return("release", STATUS_OK)
            /\ UNCHANGED <<is_streaming, keep_alive>>
    /\ UNCHANGED <<driver, params, line, board_id, client, streamer, worker, ever_prepared, process>>

\* release_session from the join of its stop_stream on
FreeEEG32_release_session_join ==
    /\ driver = "serial" /\ pc = "release_join" /\ Running
    /\ IF streaming_thread # "none" THEN Joined ELSE UNCHANGED <<streaming_thread, workers>>
    /\ streamer' = FALSE
    /\ initialized' = FALSE
    /\ serial' = FreeEEG32_close(serial, objs).serial
    /\ objs' = FreeEEG32_close(serial, objs).objs
    /\ ReturnFrom("release", STATUS_OK, "Streaming")
    /\ UNCHANGED <<driver, params, line, board_id, is_streaming, keep_alive, client, pos,
                   first_package_received, pushed, res, b, package, ever_prepared, process>>

\* variant of the start below: the scan goes on from where the last one stopped
FreeEEG32_scan_from_last == pos

\* int pos = 0 at the top of every scan (line 144)
FreeEEG32_scan_from == 0

\* variant of the test below: the liveness flag is not looked at
FreeEEG32_scan_continues_unchecked == pos < max_size - 2

\* the test of the inner while (line 146)
FreeEEG32_scan_continues == keep_alive /\ pos < max_size - 2

\* int prev_id = (pos <= 0) ? 0 : pos - 1
prev_id(p) == IF p <= 0 THEN 0 ELSE p - 1

\* the test that ends a scan with a complete package (lines 150-151)
FreeEEG32_frame_found(buf, p) ==
    /\ Cell(buf, p).val = START_BYTE
    /\ Cell(buf, prev_id(p)).val = END_BYTE
    /\ p >= min_package_size

\* variant of the handling below: every complete package is pushed
FreeEEG32_complete_package_all(first) ==
    [first_package_received |-> TRUE, push |-> TRUE]

\* what is done with a complete package (lines 158-173): the first one only
\* sets the flag, the others are decoded and pushed
FreeEEG32_complete_package(first) ==
    [first_package_received |-> TRUE, push |-> first]

\* read_thread: the test of the outer while (keep_alive)
FreeEEG32_read_thread_loop ==
    /\ driver = "serial" /\ Running /\ streaming_thread = "top"
    /\ IF keep_alive
       THEN streaming_thread' = "scan" /\ pos' = FreeEEG32_scan_from
       ELSE streaming_thread' = "done" /\ pos' = pos
    /\ Quiet
    /\ UNCHANGED <<driver, params, line, session, workers, first_package_received, pushed,
                   res, b, package, pc, ever_prepared, process>>

\* read_thread: the test of the inner while; when it fails the scan ended
\* without a complete package
FreeEEG32_read_thread_scan ==
    /\ driver = "serial" /\ Running /\ streaming_thread = "scan"
    /\ streaming_thread' = (IF FreeEEG32_scan_continues THEN "read" ELSE "top")
    /\ Quiet
    /\ UNCHANGED <<driver, params, line, session, workers, pos, first_package_received,
                   pushed, res, b, package, pc, ever_prepared, process>>

\* read_thread: the body of the inner while once the read returned rr and left
\* the buffer as nb, and what follows the loop when the body breaks out of it
FreeEEG32_scan_body(rr, nb, found) ==
    /\ b' = nb
    /\ IF found
       THEN LET h == FreeEEG32_complete_package(first_package_received)
            IN  /\ streaming_thread' = "top"
                /\ pos' = pos
                /\ first_package_received' = h.first_package_received
                /\ IF h.push THEN push_package ELSE UNCHANGED pushed
       ELSE /\ streaming_thread' = "scan"
            /\ pos' = pos + rr
            /\ UNCHANGED <<first_package_received, pushed>>

\* read_thread: one read and the pass of the inner while it belongs to, the
\* bytes of the line not followed (b and package are left as they are): the
\* read returns any of results, and the two byte comparisons come out as any
\* of founds
FreeEEG32_read_thread_reads(results, founds) ==
    /\ driver = "serial" /\ Running /\ streaming_thread = "read"
    /\ \E rr \in results, found \in founds, ub \in {"crash", "continue"} :
          IF (~Usable(serial) \/ pos < 0) /\ ub = "crash"
          THEN \* a call through a null pointer, or a buffer access below b[0]
               /\ process' = "terminated"
               /\ UNCHANGED <<streaming_thread, pos, first_package_received, pushed,
                              b, package>>
          ELSE /\ process' = (IF Usable(serial) /\ pos >= 0 THEN process ELSE "undefined")
               /\ FreeEEG32_scan_body(rr, b, found /\ pos >= min_package_size)
               /\ package' = package
               /\ pushed' <= MaxPush
               /\ pos' >= -MaxUnderrun
    /\ Quiet
    /\ UNCHANGED <<driver, params, line, session, workers, res, pc, ever_prepared>>

FreeEEG32_read_thread_read == FreeEEG32_read_thread_reads(ReadResults, BOOLEAN)

\* the same when the line is silent: every read times out and the buffer
\* keeps its zeros
FreeEEG32_read_thread_read_quiet == FreeEEG32_read_thread_reads(QuietReadResults, {FALSE})

\* read_thread: one read and the pass of the inner while it belongs to, on the
\* scripted line. The read returns 1 and stores the next byte of the line, or
\* 0 (timeout: always once the line has ended), or -1 (error); nothing is
\* stored unless it returns 1.
FreeEEG32_read_thread_line ==
    /\ driver = "serial" /\ Running /\ streaming_thread = "read"
    /\ \E rr \in ReadResults, ub \in {"crash", "continue"} :
          /\ rr = 1 => rd < StreamLen(scenario)
          /\ rr = 0 => \/ rd = StreamLen(scenario)
                       \/ scenario.fault = "timeout" /\ faults < MaxFaults
          /\ rr = -1 => scenario.fault = "error" /\ faults < MaxFaults
          /\ IF pos < 0 /\ ub = "crash"
             THEN \* a buffer access below b[0]
                  /\ process' = "terminated"
                  /\ UNCHANGED <<streaming_thread, pos, first_package_received, pushed,
                                 b, package, rd, faults>>
             ELSE LET nb == IF rr = 1 /\ pos >= 0
                            THEN Stored(b, pos, ByteAt(scenario, rd + 1))
                            ELSE b
                  IN  /\ process' = (IF pos >= 0 THEN process ELSE "undefined")
                      /\ FreeEEG32_scan_body(rr, nb, pos >= 0 /\ FreeEEG32_frame_found(nb, pos))
                      /\ package' = (IF pushed' > pushed THEN Decoded(nb) ELSE package)
                      /\ rd' = (IF rr = 1 THEN rd + 1 ELSE rd)
                      /\ faults' = (IF rr = -1 \/ (rr = 0 /\ rd < StreamLen(scenario))
                                    THEN faults + 1 ELSE faults)
    /\ Quiet
    /\ UNCHANGED <<driver, params, scenario, session, workers, res, pc, ever_prepared>>

\* ----------------------------------------------------- StreamingBoard
\* prepare_session past its early returns: allocate the client and init it
StreamingBoard_acquire(i) ==
    LET h == Len(objs) + 1
        created == Append(objs, NewObj)
    IN  IF i = "fail"
        THEN [code |-> GENERAL_ERROR, client |-> h, objs |-> created,
              initialized |-> FALSE]
        ELSE [code |-> STATUS_OK, client |-> h, objs |-> OpenObj(created, h),
              initialized |-> TRUE]

StreamingBoard_prepare_session ==
    /\ Callable("multicast")
    /\ IF initialized
       THEN /\ Return("prepare", STATUS_OK)
            /\ UNCHANGED <<session, ever_prepared>>
       ELSE IF params.ip_address = "" \/ params.other_info = <<>> \/ params.ip_port = 0
       THEN /\ Return("prepare", INVALID_ARGUMENTS_ERROR)
            /\ UNCHANGED <<session, ever_prepared>>
       ELSE IF stoi(params.other_info).throws
       THEN /\ Return("prepare", INVALID_ARGUMENTS_ERROR)
            /\ UNCHANGED <<session, ever_prepared>>
       ELSE /\ Len(objs) < MaxObjs
            /\ \E i \in Outcomes :
                  LET r == StreamingBoard_acquire(i)
                  IN  /\ board_id' = NumberedBoard(stoi(params.other_info).value)
                      /\ client' = r.client
                      /\ objs' = r.objs
                      /\ initialized' = r.initialized
                      /\ ever_prepared' = (ever_prepared \/ r.initialized)
                      /\ Return("prepare", r.code)
            /\ UNCHANGED <<is_streaming, keep_alive, serial, streamer>>
    /\ UNCHANGED <<driver, params, line, worker, process>>

\* variant of the guard below: start_stream never refuses
StreamingBoard_already_streaming_unchecked == FALSE

\* the guard of start_stream
StreamingBoard_already_streaming == is_streaming

StreamingBoard_start_stream ==
    /\ Callable("multicast")
    /\ \E pb \in Outcomes :
          LET buffers == prepare_buffers(pb)
          IN  IF StreamingBoard_already_streaming
              THEN /\ Return("start", STREAM_ALREADY_RUN_ERROR)
                   /\ UNCHANGED <<session, worker, process>>
              ELSE IF buffers.code # STATUS_OK
              THEN /\ Return("start", buffers.code)
                   /\ streamer' = buffers.streamer
                   /\ UNCHANGED <<board_id, initialized, is_streaming, keep_alive,
                                  serial, client, objs, worker, process>>
              ELSE /\ streamer' = buffers.streamer
                   /\ keep_alive' = TRUE
                   /\ Spawned(process)
                   /\ is_streaming' = TRUE
                   /\ Return("start", STATUS_OK)
                   /\ UNCHANGED <<board_id, initialized, serial, client, objs, pushed,
                                  res, package>>
    /\ UNCHANGED <<driver, params, line, ever_prepared>>

\* stop_stream up to the join
StreamingBoard_stop_stream ==
    /\ Callable("multicast")
    /\ IF is_streaming
       THEN /\ keep_alive' = FALSE
            /\ is_streaming' = FALSE
            /\ pc' = "stop_join"
            /\ Quiet
       ELSE /\ Return("stop", STREAM_THREAD_IS_NOT_RUNNING)
            /\ UNCHANGED <<is_streaming, keep_alive>>
    /\ UNCHANGED <<driver, params, line, board_id, initialized, serial, client, streamer, objs,
                   worker, ever_prepared, process>>

\* stop_stream from the join on
StreamingBoard_stop_stream_join ==
    /\ driver = "multicast" /\ pc = "stop_join" /\ Running
    /\ Joined
    /\ streamer' = FALSE
    /\ ReturnFrom("stop", STATUS_OK, "Streaming")
    /\ UNCHANGED <<driver, params, line, board_id, initialized, is_streaming, keep_alive, serial,
                   client, objs, pos, first_package_received, pushed, res, b, package,
                   ever_prepared, process>>

\* the tail of release_session's if (initialized): delete the client
StreamingBoard_close(c, os) ==
    IF c # 0
    THEN [client |-> 0, objs |-> DeleteObj(os, c)]
    ELSE [client |-> c, objs |-> os]

\* release_session up to the join, or all of it when it does not stop a stream
StreamingBoard_release_session ==
    /\ Callable("multicast")
    /\ IF initialized /\ is_streaming
       THEN /\ keep_alive' = FALSE
            /\ is_streaming' = FALSE
            /\ pc' = "release_join"
            /\ Quiet
            /\ UNCHANGED <<initialized, client, objs>>
       ELSE IF initialized
       THEN /\ initialized' = FALSE
            /\ client' = StreamingBoard_close(client, objs).client
            /\ objs' = StreamingBoard_close(client, objs).objs
            /\ Return("release", STATUS_OK)
            /\ UNCHANGED <<is_streaming, keep_alive>>
       ELSE /\ Return("release", STATUS_OK)
            /\ UNCHANGED <<initialized, client, objs, is_streaming, keep_alive>>
    /\ UNCHANGED <<driver, params, line, board_id, serial, streamer, worker, ever_prepared, process>>

\* release_session from the join of its stop_stream on
StreamingBoard_release_session_join ==
    /\ driver = "multicast" /\ pc = "release_join" /\ Running
    /\ Joined
    /\ streamer' = FALSE
    /\ initialized' = FALSE
    /\ client' = StreamingBoard_close(client, objs).client
    /\ objs' = StreamingBoard_close(client, objs).objs
    /\ ReturnFrom("release", STATUS_OK, "Streaming")
    /\ UNCHANGED <<driver, params, line, board_id, is_streaming, keep_alive, serial, pos,
                   first_package_received, pushed, res, b, package, ever_prepared, process>>

\* read_thread: the test of while (keep_alive)
StreamingBoard_read_thread_loop ==
    /\ driver = "multicast" /\ Running /\ streaming_thread = "top"
    /\ streaming_thread' = (IF keep_alive THEN "recv" ELSE "done")
    /\ Quiet
    /\ UNCHANGED <<driver, params, line, session, workers, pos, first_package_received,
                   pushed, res, b, package, pc, ever_prepared, process>>

\* variant of the test below: whatever was received is pushed
StreamingBoard_whole_package_unchecked(r) == TRUE

\* res != bytes_per_recv fails (line 145)
StreamingBoard_whole_package(r) == r = "full"

\* read_thread: one client->recv, returning any of results, and what the loop
\* body does with its result
StreamingBoard_read_thread_recvs(results) ==
    /\ driver = "multicast" /\ Running /\ streaming_thread = "recv"
    /\ \E rr \in results, ub \in {"crash", "continue"} :
          IF ~Usable(client) /\ ub = "crash"
          THEN \* a call through a null pointer
               /\ process' = "terminated"
               /\ UNCHANGED <<streaming_thread, pushed, res>>
          ELSE /\ process' = (IF Usable(client) THEN process ELSE "undefined")
               /\ (Usable(client) /\ objs[client].open) \/ rr # "full"
               /\ res' = rr
               /\ streaming_thread' = "top"
               /\ IF StreamingBoard_whole_package(rr)
                  THEN pushed < MaxPush /\ push_package
                  ELSE pushed' = pushed
    /\ Quiet
    /\ UNCHANGED <<driver, params, line, session, workers, pos, first_package_received,
                   b, package, pc, ever_prepared>>

StreamingBoard_read_thread_recv == StreamingBoard_read_thread_recvs(RecvResults)

\* the same when nothing arrives on the socket
StreamingBoard_read_thread_recv_quiet == StreamingBoard_read_thread_recvs(QuietRecvResults)

Next ==
    \/ FreeEEG32_prepare_session
    \/ FreeEEG32_start_stream
    \/ FreeEEG32_stop_stream
    \/ FreeEEG32_stop_stream_join
    \/ FreeEEG32_release_session
    \/ FreeEEG32_release_session_join
    \/ FreeEEG32_read_thread_loop
    \/ FreeEEG32_read_thread_scan
    \/ FreeEEG32_read_thread_read
    \/ StreamingBoard_prepare_session
    \/ StreamingBoard_start_stream
    \/ StreamingBoard_stop_stream
    \/ StreamingBoard_stop_stream_join
    \/ StreamingBoard_release_session
    \/ StreamingBoard_release_session_join
    \/ StreamingBoard_read_thread_loop
    \/ StreamingBoard_read_thread_recv

Spec == Init /\ [][Next]_vars

\* ------------------------------------------------------- a silent transport
\* the calls of the controller, whatever the transport delivers
Controller ==
    \/ FreeEEG32_prepare_session
    \/ FreeEEG32_start_stream
    \/ FreeEEG32_stop_stream
    \/ FreeEEG32_release_session
    \/ StreamingBoard_prepare_session
    \/ StreamingBoard_start_stream
    \/ StreamingBoard_stop_stream
    \/ StreamingBoard_release_session

\* the steps of the worker thread when nothing arrives on the transport
QuietWorker ==
    \/ FreeEEG32_read_thread_loop
    \/ FreeEEG32_read_thread_scan
    \/ FreeEEG32_read_thread_read_quiet
    \/ StreamingBoard_read_thread_loop
    \/ StreamingBoard_read_thread_recv_quiet

\* the controller leaving a join once the worker thread has ended
Joins ==
    \/ FreeEEG32_stop_stream_join
    \/ FreeEEG32_release_session_join
    \/ StreamingBoard_stop_stream_join
    \/ StreamingBoard_release_session_join

QuietNext == Controller \/ QuietWorker \/ Joins

\* the scheduler runs the worker thread as long as it has a step to take,
\* and a join returns once it can
QuietSpec ==
    Init /\ [][QuietNext]_vars /\ WF_vars(QuietWorker) /\ WF_vars(Joins)

\* ------------------------------------------------------- a scripted line
\* a session of the serial driver after prepare_session and start_stream
\* succeeded, its worker at the top of read_thread, fed one of Scenarios
LineInit ==
    /\ driver = "serial"
    /\ params \in {q \in SerialParams : q.serial_port # ""}
    /\ board_id = NamedBoard("FREEEEG32_BOARD")
    /\ initialized = TRUE
    /\ is_streaming = TRUE
    /\ keep_alive = TRUE
    /\ serial = 1
    /\ client = 0
    /\ streamer = TRUE
    /\ streaming_thread = "top"
    /\ workers = 1
    /\ pos = 0
    /\ first_package_received = FALSE
    /\ pushed = 0
    /\ res = "none"
    /\ b = ZeroBuffer
    /\ package = NoPackage
    /\ scenario \in Scenarios
    /\ rd = 0
    /\ faults = 0
    /\ objs = OpenObj(<<NewObj>>, 1)
    /\ pc = "ready"
    /\ ret = NoReturn
    /\ ever_prepared = TRUE
    /\ process = "running"

LineNext ==
    \/ FreeEEG32_read_thread_loop
    \/ FreeEEG32_read_thread_scan
    \/ FreeEEG32_read_thread_line

LineSpec == LineInit /\ [][LineNext]_vars

\* ------------------------------------------------------------ lifecycle
Idle == ~initialized /\ ~is_streaming

Prepared == initialized /\ ~is_streaming

Streaming == is_streaming

\* the worker thread is spawned and not yet joined
WorkerActive == workers > 0

\* the session holds a transport object that exists and is open
TransportOpen == Usable(Handle) /\ objs[Handle].open

\* ---------------------------------------------------------------- claims

\* C1: when release() returns it returns Ok, no worker thread is active, the
\* liveness flag is false and the session is Idle, whatever calls came before
\* (stated of the runs in which every operation executed was defined).
C1_ReleaseLeavesIdle ==
    (Defined /\ ret.op = "release") =>
        /\ ret.code = STATUS_OK
        /\ ~WorkerActive
        /\ ~keep_alive
        /\ Idle

\* C2: while the worker thread is active the transport object exists and is
\* open and the Sink exists (stated of the runs in which every operation
\* executed was defined).
C2_WorkerHasTransportAndSink ==
    (Defined /\ WorkerActive) => (TransportOpen /\ streamer)

\* C3: a prepare() that returns a code other than Ok leaves the session Idle
\* with a null handle, and every transport object it allocated is closed and
\* destroyed (stated of the runs in which every operation executed was defined).
C3_FailedPrepareOwnsNothing ==
    [][(Defined' /\ ret'.op = "prepare" /\ ret'.code # STATUS_OK) =>
          /\ Idle'
          /\ Handle' = 0
          /\ \A i \in (Len(objs) + 1)..Len(objs') :
                ~objs'[i].alive /\ ~objs'[i].open /\ objs'[i].dels = 1]_vars

\* C4: when release() returns, every transport object the session ever
\* allocated is closed and has been destroyed exactly once, and no object is
\* ever opened twice (stated of the runs in which every operation executed was
\* defined).
C4_NoTransportLeak ==
    /\ \A i \in 1..Len(objs) : objs[i].opens <= 1 /\ objs[i].closes <= objs[i].opens
    /\ (Defined /\ ret.op = "release") =>
          \A i \in 1..Len(objs) :
             ~objs[i].alive /\ ~objs[i].open /\ objs[i].dels = 1

\* C5: prepare() called on a Prepared or Streaming session returns Ok, does
\* nothing to the transport and leaves the session as it was (stated of the
\* runs in which every operation executed was defined).
C5_PrepareIsNoOp ==
    [][(Defined' /\ ret'.op = "prepare" /\ (Prepared \/ Streaming)) =>
          (ret'.code = STATUS_OK /\ UNCHANGED session)]_vars

\* C6: start() on a Streaming session returns AlreadyRunning, stop() on a
\* session that is not Streaming returns NotRunning, and neither changes the
\* session, its transport, its Sink or its worker.
C6_LifecycleGuards ==
    [][/\ (ret'.op = "start" /\ Streaming) =>
             /\ ret'.code = STREAM_ALREADY_RUN_ERROR
             /\ UNCHANGED <<session, worker, process>>
       /\ (ret'.op = "stop" /\ pc = "ready" /\ ~Streaming) =>
             /\ ret'.code = STREAM_THREAD_IS_NOT_RUNNING
             /\ UNCHANGED <<session, worker, process>>]_vars

C6_Witness ==
    /\ ret = [op |-> "start", code |-> STREAM_ALREADY_RUN_ERROR, from |-> "Streaming"]
    /\ workers = 1
    /\ streaming_thread # "done"

\* C7: at most one worker thread is active, and the thread handle is joinable
\* exactly when one is.
C7_AtMostOneWorker ==
    /\ workers <= 1
    /\ (workers = 1) = (streaming_thread # "none")

\* a second worker of the serial session runs after the first one pushed
C7_Witness ==
    /\ driver = "serial"
    /\ workers = 1
    /\ streaming_thread = "scan"
    /\ ~first_package_received
    /\ pushed > 0

\* C8: stop() on a Streaming session returns Ok only once the worker has left
\* its loop and is joined; the Sink is there until the join and gone on return;
\* on return the liveness flag is false, the transport is still open and the
\* session is Prepared (stated of the runs in which every operation executed
\* was defined).
C8_StopLeavesPrepared ==
    /\ [](pc = "stop_join" => streamer)
    /\ [][(Defined' /\ ret'.op = "stop" /\ ret'.from = "Streaming") =>
             /\ ret'.code = STATUS_OK
             /\ streaming_thread = "done"
             /\ ~WorkerActive'
             /\ ~streamer'
             /\ ~keep_alive'
             /\ TransportOpen'
             /\ Prepared']_vars

\* C9: release() on a session that was never prepared, or right after a
\* release(), returns Ok, closes nothing, joins nothing and changes nothing;
\* and release() returns Ok whenever it returns.
C9_ReleaseIdempotent ==
    /\ [](ret.op = "release" => ret.code = STATUS_OK)
    /\ [][(ret'.op = "release" /\ pc = "ready" /\ (~ever_prepared \/ ret.op = "release")) =>
             UNCHANGED <<session, worker, process>>]_vars

\* a release() returns on a session that an earlier release() left Idle
C9_Witness ==
    /\ ret = [op |-> "release", code |-> STATUS_OK, from |-> "Idle"]
    /\ ever_prepared
    /\ \E i \in 1..Len(objs) : objs[i].opens = 1 /\ objs[i].closes = 1 /\ objs[i].dels = 1

\* C10: when release() of a Prepared or Streaming session returns, no transport
\* is open; and a prepare() that follows it and succeeds has opened a fresh
\* transport object and left the session Prepared (stated of the runs in which
\* every operation executed was defined).
C10_ReleaseThenPrepare ==
    /\ []((Defined /\ ret.op = "release" /\ ret.from \in {"Prepared", "Streaming"}) =>
             \A i \in 1..Len(objs) : ~objs[i].open)
    /\ [][(/\ Defined'
           /\ ret.op = "release"
           /\ ret.from \in {"Prepared", "Streaming"}
           /\ ret'.op = "prepare"
           /\ ret'.code = STATUS_OK) =>
             /\ Prepared'
             /\ TransportOpen'
             /\ Len(objs') = Len(objs) + 1
             /\ Handle' = Len(objs')
             /\ objs'[Handle'].opens = 1]_vars

\* C11: a prepare() in which opening the transport fails (serial: the port is
\* already open or cannot be opened; multicast: the socket cannot be
\* initialised) returns ResourceBusy (PORT_ALREADY_OPEN_ERROR) or
\* ResourceUnavailable (UNABLE_TO_OPEN_PORT_ERROR), never another code, and
\* leaves the session Idle. The open failed when the transport object the call
\* allocated was never opened.
C11_OpenFailureCode ==
    [][(/\ Defined'
        /\ ret'.op = "prepare"
        /\ Len(objs') = Len(objs) + 1
        /\ objs'[Len(objs')].opens = 0) =>
          /\ ret'.code \in {PORT_ALREADY_OPEN_ERROR, UNABLE_TO_OPEN_PORT_ERROR}
          /\ Idle']_vars

\* C12: on the multicast driver, prepare() with address, port and free-form
\* field all given but the free-form field not parsing to an integer returns
\* a code of its own, different from the InvalidArgument of a missing
\* configuration, creates no transport object and leaves the session Idle.
C12_UnparsableIdentifier ==
    [][(/\ Defined'
        /\ driver = "multicast"
        /\ ret'.op = "prepare"
        /\ ~initialized
        /\ params.ip_address # ""
        /\ params.ip_port # 0
        /\ params.other_info # <<>>
        /\ stoi(params.other_info).throws) =>
          /\ ret'.code \notin {STATUS_OK, INVALID_ARGUMENTS_ERROR}
          /\ objs' = objs
          /\ Idle']_vars

\* C13: on a silent transport (every read and every receive times out with
\* zero bytes) a stop() of a session whose transport exists eventually
\* returns; and once the liveness flag is false the worker starts no further
\* receive: it leaves the inner scan loop at its next test and the outer loop
\* at the test after that.
C13_StopReturns ==
    /\ (pc = "stop_join" /\ Defined /\ Usable(Handle)) ~> (ret.op = "stop")
    /\ [][(~keep_alive /\ ~keep_alive') =>
             /\ streaming_thread' \in {"read", "recv"} => streaming_thread' = streaming_thread
             /\ (streaming_thread = "scan" /\ streaming_thread' # "scan") =>
                   streaming_thread' = "top"
             /\ (streaming_thread = "top" /\ streaming_thread' # "top") =>
                   streaming_thread' = "done"]_vars

\* a stop() has returned Ok on a multicast session whose worker received
\* nothing from its open socket
C13_Witness ==
    /\ ret = [op |-> "stop", code |-> STATUS_OK, from |-> "Streaming"]
    /\ res = "zero"
    /\ Defined
    /\ TransportOpen

\* C14: when the serial line has delivered leading garbage, one truncated
\* frame and two well-formed back-to-back frames, every read returning one
\* byte, the worker has pushed exactly one package, decoded from the second
\* frame: field 0 from that frame's byte 0 and channel i from its bytes
\* 1+3i..3+3i; for every length of garbage and of truncated frame.
C14_ResyncEmitsSecondFrame ==
    (/\ Defined
     /\ scenario.frames = 2
     /\ scenario.fault = "none"
     /\ rd = StreamLen(scenario)) =>
        /\ pushed = 1
        /\ DOMAIN package = 0..eeg_channels
        /\ \A f \in DOMAIN package :
              \A k \in 1..Len(package[f]) :
                 package[f][k] = Byte("data", "frame2", IF f = 0 THEN 0 ELSE 3 * (f - 1) + k)

\* C15: in the multicast worker a receive that returns anything but the whole
\* packet (fewer bytes, zero bytes, an error value) pushes nothing and the
\* worker goes back to the test of its loop, from which it receives again
\* while the liveness flag is true; a receive of the whole packet pushes
\* exactly one package.
C15_ShortPacketDropped ==
    [][/\ (streaming_thread = "recv" /\ streaming_thread' # "recv" /\ Running') =>
             /\ streaming_thread' = "top"
             /\ pushed' = pushed + (IF res' = "full" THEN 1 ELSE 0)
       /\ (driver = "multicast" /\ streaming_thread = "top" /\ streaming_thread' # "top"
           /\ keep_alive) =>
             streaming_thread' = "recv"]_vars

\* after a package was pushed, a receive returned fewer bytes and the worker
\* is back at the test of its loop with the flag still true
C15_Witness ==
    /\ driver = "multicast"
    /\ streaming_thread = "top"
    /\ res = "short"
    /\ pushed = 1
    /\ keep_alive
    /\ Defined

\* C16: in the serial worker every complete frame detected sets the discard
\* flag; it pushes exactly one package when the flag was already set and none
\* when it was not (the first frame of the run); a scan that ends without a
\* frame changes neither the flag nor the packages; the flag is cleared only
\* by the start of a new worker, which always clears it; and nothing else
\* pushes. So a run pushes one package less than it detects frames.
C16_FirstFrameDiscardedOnce ==
    [][/\ (streaming_thread = "read" /\ streaming_thread' = "top") =>
             /\ first_package_received'
             /\ pushed' = pushed + (IF first_package_received THEN 1 ELSE 0)
       /\ (streaming_thread = "scan" /\ streaming_thread' = "top") =>
             UNCHANGED <<first_package_received, pushed>>
       /\ (first_package_received /\ ~first_package_received') => workers' = workers + 1
       /\ (workers' = workers + 1) => ~first_package_received'
       /\ (driver = "serial" /\ pushed' # pushed) =>
             (streaming_thread = "read" /\ streaming_thread' = "top")]_vars

\* the worker has just pushed the second complete frame of its run
C16_Witness ==
    /\ driver = "serial"
    /\ streaming_thread = "top"
    /\ first_package_received
    /\ pushed = 1
    /\ pos >= min_package_size
    /\ pos < max_size - 2
    /\ Defined

\* C17: a scan of the serial worker that reaches max_size - 2 bytes without a
\* complete frame ends with nothing pushed, the worker still running and no
\* call of the controller returning; and while the liveness flag is true the
\* next scan starts at position 0. The position never passes max_size - 2.
C17_WindowExhausted ==
    /\ [](driver = "serial" => pos <= max_size - 2)
    /\ [][/\ (streaming_thread = "scan" /\ pos >= max_size - 2
              /\ streaming_thread' # "scan") =>
                /\ streaming_thread' = "top"
                /\ ret' = NoReturn
                /\ UNCHANGED <<session, workers, pos, first_package_received, pushed, process>>
          /\ (driver = "serial" /\ streaming_thread = "top" /\ keep_alive
              /\ streaming_thread' # "top") =>
                /\ streaming_thread' = "scan"
                /\ pos' = 0]_vars

\* a scan has just ended at the end of the window, the flag still true
C17_Witness ==
    /\ driver = "serial"
    /\ streaming_thread = "top"
    /\ pos = max_size - 2
    /\ keep_alive
    /\ Defined

\* C18: whenever the serial worker reads into the scan buffer the position is
\* within 0..max_size - 2, whatever the reads before it returned (stated of
\* the runs in which every operation executed so far was defined).
C18_ScanPosInBounds ==
    (Defined /\ driver = "serial" /\ streaming_thread = "read") =>
        (0 <= pos /\ pos <= max_size - 2)

\* C19: on a line whose reads deliver a byte or time out (none fails), the
\* serial worker declares a frame complete only in a pass whose read delivered
\* a byte, and field 0 of every package pushed is decoded from byte 0 of a
\* frame, the byte that follows the START_BYTE of the frame before it.
C19_NoStaleSentinel ==
    /\ []((Defined /\ scenario.fault # "error" /\ pushed > 0) =>
             /\ package[0][1].at = 0
             /\ package[0][1].frame \in {"frame2", "frame3"})
    /\ [][(/\ scenario.fault # "error"
           /\ streaming_thread = "read"
           /\ streaming_thread' = "top") => rd' = rd + 1]_vars

\* C20: in every package the serial worker pushes, none of the 1 + 3 * 32
\* bytes decoded is a sentinel END_BYTE: the END_BYTE that ended the frame
\* lies behind the last byte of the last channel.
C20_EndByteNotDecoded ==
    (Defined /\ pushed > 0) =>
        \A f \in DOMAIN package :
           \A k \in 1..Len(package[f]) : package[f][k].val # END_BYTE

====
